---- MODULE Spec2Model ----
(***************************************************************************)
(* Model of the hyperparameter-optimization notebook                       *)
(* (src/unnamed/part_001): the cells are run top to bottom, first the main *)
(* sweep (lines 183-335), then the exercise 1 sweep (lines 381-526).       *)
(*                                                                         *)
(* Conventions                                                             *)
(*   - Python's None is the integer None (-1) where the variable otherwise *)
(*     holds a number or a reference.                                      *)
(*   - A hyperparameter set is a Python dict; variables that hold one hold *)
(*     a reference (an index into heap), as in Python.                     *)
(*   - Accuracies are integers 0..MaxAcc (0 is 0.0); learning rates are in *)
(*     thousandths, dropout in units of 1/DropRes.                         *)
(*   - numpy's RandomState is modelled by a small linear congruential      *)
(*     generator: what matters is that a draw is a function of the         *)
(*     generator's state and advances it.                                  *)
(***************************************************************************)
EXTENDS Integers, Sequences, FiniteSets, TLC

\* ---------------------------------------------------------------- bounds
MaxTrials == 2      \* largest n_iter explored
MaxAcc == 2         \* validation / test accuracies range over 0..MaxAcc
NumTrainValid == 2  \* samples in the train+valid part of the dataset
NumTest == 1        \* samples in the test part of the dataset
MaxRuns == 2        \* the notebook is run at most this many times
DropRes == 4        \* resolution of the uniform dropout draw

None == 0 - 1

\* ------------------------------------------------------ program constants
SeedMain == 99
SeedEx1 == 1234
NumEpochsStatic == 2
ConvFilterSizeStatic == 3

Sweeps == {"main", "ex1"}

\* static_hyper_params (identical in both sweeps)
static_hyper_params ==
    [activation |-> "relu",
     conv_filter_size |-> ConvFilterSizeStatic,
     num_epochs |-> NumEpochsStatic]

List(vs) == [kind |-> "list", vals |-> vs, low |-> 0, high |-> 0]
uniform == [kind |-> "uniform", vals |-> <<>>, low |-> 0, high |-> 1]
randint(lo, hi) == [kind |-> "randint", vals |-> <<>>, low |-> lo, high |-> hi]

hp_ranges ==
    [conv1_num_filters |-> List(<<32, 64, 128>>),
     conv2_num_filters |-> List(<<32, 64, 128>>),
     conv3_num_filters |-> List(<<32, 64, 128>>),
     conv4_num_filters |-> List(<<32, 64, 128>>),
     conv5_num_filters |-> List(<<32, 64, 128>>),
     dense1_size |-> List(<<32, 64, 128, 256, 512>>),
     dropout |-> uniform,
     learn_rate |-> List(<<100, 30, 1>>),
     batch_size |-> List(<<8, 16, 32, 64, 128>>)]

hp_ranges_ex1 ==
    [num_conv_filters |-> List(<<32, 64, 128>>),
     num_conv_layers |-> randint(2, 8),
     num_convs_per_max_pool |-> randint(1, 3),
     dense_size |-> List(<<32, 64, 128, 256, 512>>),
     num_dense_layers |-> randint(1, 3),
     dropout |-> uniform,
     learn_rate |-> List(<<100, 30, 1>>),
     batch_size |-> List(<<8, 16, 32, 64, 128>>)]

\* sorted(param_distributions.items()): the order in which the sampler draws
SortedKeys(sw) ==
    IF sw = "main"
    THEN <<"batch_size", "conv1_num_filters", "conv2_num_filters",
           "conv3_num_filters", "conv4_num_filters", "conv5_num_filters",
           "dense1_size", "dropout", "learn_rate">>
    ELSE <<"batch_size", "dense_size", "dropout", "learn_rate",
           "num_conv_filters", "num_conv_layers", "num_convs_per_max_pool",
           "num_dense_layers">>

Ranges(sw) == IF sw = "main" THEN hp_ranges ELSE hp_ranges_ex1
Seed(sw) == IF sw = "main" THEN SeedMain ELSE SeedEx1

\* ----------------------------------------------------------- the sampler
\* one step of the generator
RngStep(s) == (171 * s + 11) % 1009

RECURSIVE Advance(_, _)
Advance(s, n) == IF n = 0 THEN s ELSE Advance(RngStep(s), n - 1)

\* one draw from a range, given the generator state after it was advanced
PickInclusive(r, s) ==
    CASE r.kind = "list" -> r.vals[(s % Len(r.vals)) + 1]
      [] r.kind = "uniform" -> s % DropRes
      [] r.kind = "randint" -> r.low + (s % (r.high - r.low + 1))
Pick(r, s) ==
    CASE r.kind = "list" -> r.vals[(s % Len(r.vals)) + 1]
      [] r.kind = "uniform" -> s % DropRes
      [] r.kind = "randint" -> r.low + (s % (r.high - r.low))

PosOf(seq, k) == CHOOSE j \in 1..Len(seq) : seq[j] = k

\* the dict built by one pass of the sampler's inner loop, generator at s
DrawSet(sw, s) ==
    [k \in DOMAIN Ranges(sw) |->
        Pick(Ranges(sw)[k], Advance(s, PosOf(SortedKeys(sw), k)))]

AfterDraw(sw, s) == Advance(s, Len(SortedKeys(sw)))

\* the generator an iteration over the sampler starts from: random_state is
\* an int, so each __iter__ builds a fresh RandomState(seed)
check_random_state_shared(seed, cur) == cur
check_random_state(seed, cur) == seed

\* params = dict() inside the sampler's loop: every item yielded is a new
\* object, so a reference taken earlier keeps pointing at the earlier dict
YieldReuse(h, d) == IF h = <<>> THEN <<d>> ELSE [h EXCEPT ![Len(h)] = d]
Yield(h, d) == Append(h, d)

\* the whole sequence yielded by one iteration that starts at state s
RECURSIVE IterAll(_, _, _)
IterAll(sw, s, n) ==
    IF n = 0 THEN <<>>
    ELSE <<DrawSet(sw, s)>> \o IterAll(sw, AfterDraw(sw, s), n - 1)

\* ---------------------------------------------------------- wandb.config
\* config.update(d, allow_val_change): whether it raises
UpdateRaises(cfg, d, allow_val_change, strict_lib) ==
    /\ strict_lib
    /\ ~allow_val_change
    /\ \E k \in (DOMAIN cfg) \cap (DOMAIN d) : cfg[k] # d[k]

ConfigUpdateKeep(cfg, d) ==
    [k \in (DOMAIN cfg) \cup (DOMAIN d) |->
        IF k \in DOMAIN cfg THEN cfg[k] ELSE d[k]]
ConfigUpdate(cfg, d) ==
    [k \in (DOMAIN cfg) \cup (DOMAIN d) |->
        IF k \in DOMAIN d THEN d[k] ELSE cfg[k]]

EmptyConfig == [k \in {} |-> 0]

\* the keys build_compile / build_compile_ex1 read from the config
BuildKeys(sw) ==
    IF sw = "main"
    THEN {"conv1_num_filters", "conv2_num_filters", "conv3_num_filters",
          "conv4_num_filters", "conv5_num_filters", "conv_filter_size",
          "activation", "dense1_size", "dropout", "learn_rate"}
    ELSE {"learn_rate"}

\* the keys model.fit reads from the config
FitKeys == {"batch_size", "num_epochs"}

\* ------------------------------------------------------------------ data
X_train_valid == 1..NumTrainValid
X_test == (NumTrainValid + 1)..(NumTrainValid + NumTest)

\* ----------------------------------------------------------------- state
VARIABLES
    run,            \* which execution of the notebook this is (1..MaxRuns)
    pc,             \* the step that runs next
    sweep,          \* "main" or "ex1"
    n_iter,         \* the samplers' n_iter
    strict_lib,     \* does this wandb reject value changes without
                    \* allow_val_change=True
    X_valid,        \* the validation part of X_train_valid
    heap,           \* the dicts yielded by the samplers, by reference
    rng,            \* state of the generator of the current iteration
    enum_count,     \* enumerate()'s counter in the sweep loop
    i,              \* loop variable of the preview loop
    hp_ind,         \* loop variable of the sweep loop
    hp_set,         \* loop variable (reference) of both loops
    config,         \* wandb.config
    model,          \* the model object bound to the name model
    history,        \* history.history['val_acc'] of the last fit
    valid_acc,
    best_valid_acc,
    best_hp_set,
    best_hp_ind,
    out,            \* what the notebook printed in this sweep
    trials,         \* history variable: one record per trial started
    sampled,        \* history variable: the sets each iteration yielded
    prev_sampled,   \* history variable: sampled of the previous run
    test_uses,      \* history variable: operations of this sweep that were
                    \* given test samples
    main_best,      \* history variable: <<best_valid_acc, best_hp_ind>> the
                    \* main sweep ended with
    fail,           \* why the run aborted ("none" while it has not)
    \* --- the callbacks example (its own notebook and kernel)
    cb_pc,          \* the step of the callbacks example that runs next
    epoch,          \* loop variable of fit's epoch loop (0-based)
    epoch_logs,     \* epoch_logs['val_acc'] of the epoch that just ended
    stop_training,  \* model.stop_training
    es_wait,        \* early_stopper.wait
    es_best,        \* early_stopper.best
    es_stopped_epoch,       \* early_stopper.stopped_epoch
    epochs_since_last_save, \* checkpointer.epochs_since_last_save
    ck_best,        \* checkpointer.best
    outpath_dir,    \* the files in the directory outpath
    val_acc_hist,   \* history variable: val_acc of every epoch that ran
    ck_saved        \* history variable: the file names the checkpointer
                    \* wrote, in order

sweepvars == <<run, pc, sweep, n_iter, strict_lib, X_valid, heap, rng,
               enum_count, i, hp_ind, hp_set, config, model, history,
               valid_acc, best_valid_acc, best_hp_set, best_hp_ind, out,
               trials, sampled, prev_sampled, test_uses, main_best, fail>>

cbvars == <<cb_pc, epoch, epoch_logs, stop_training, es_wait, es_best,
            es_stopped_epoch, epochs_since_last_save, ck_best, outpath_dir,
            val_acc_hist, ck_saved>>

vars == <<sweepvars, cbvars>>

X_train == X_train_valid \ X_valid

NoModel == [origin |-> "none", ind |-> None, hp |-> EmptyConfig,
            batch_size |-> None, epochs |-> None,
            fit_on |-> {}, validated_on |-> {}]

NoOut == [header |-> <<>>, best_ind |-> None, best_acc |-> None,
          best_set |-> None, test_loss |-> None, test_acc |-> None,
          evaluated |-> NoModel]

NoSampled == [main_preview |-> <<>>, main_loop |-> <<>>,
              ex1_preview |-> <<>>, ex1_loop |-> <<>>]

PreviewKey(sw) == IF sw = "main" THEN "main_preview" ELSE "ex1_preview"
LoopKey(sw) == IF sw = "main" THEN "main_loop" ELSE "ex1_loop"

\* the state of a freshly started kernel, before the first cell
Fresh ==
    /\ pc = "PREPARE"
    /\ sweep = "main"
    /\ X_valid = {}
    /\ heap = <<>>
    /\ rng = None
    /\ enum_count = 0
    /\ i = None
    /\ hp_ind = None
    /\ hp_set = None
    /\ config = EmptyConfig
    /\ model = NoModel
    /\ history = <<>>
    /\ valid_acc = None
    /\ best_valid_acc = None
    /\ best_hp_set = None
    /\ best_hp_ind = None
    /\ out = NoOut
    /\ trials = <<>>
    /\ sampled = NoSampled
    /\ test_uses = 0
    /\ main_best = <<None, None>>
    /\ fail = "none"

\* -Inf, the value EarlyStopping and ModelCheckpoint start best with when
\* the monitored quantity is an accuracy: below every accuracy
NegInf == 0 - 1

\* the kernel of the callbacks example after the cells that define the
\* callbacks and compile the model, before fit
CbFresh ==
    /\ cb_pc = "COMPILED"
    /\ epoch = None
    /\ epoch_logs = None
    /\ stop_training = FALSE
    /\ es_wait = 0
    /\ es_best = NegInf
    /\ es_stopped_epoch = 0
    /\ epochs_since_last_save = 0
    /\ ck_best = NegInf
    /\ outpath_dir = {}
    /\ val_acc_hist = <<>>
    /\ ck_saved = <<>>

Init ==
    /\ run = 1
    /\ n_iter \in 0..MaxTrials
    /\ strict_lib \in BOOLEAN
    /\ prev_sampled = NoSampled
    /\ Fresh
    /\ CbFresh

\* ------------------------------------------------------------ operations
\* the iterator is exhausted after n items
ExhaustedEarly(cnt, n) == cnt + 1 >= n
Exhausted(cnt, n) == cnt >= n

\* where control goes when a step raises: the loop has no try/except, so
\* the exception ends the cell and the run
OnExceptionContinue(next) == "BUILD"
OnException(next) == "ABORTED"

\* valid_acc = history.history['val_acc'][-1]
MaxOf(h) == CHOOSE v \in {h[j] : j \in 1..Len(h)} :
                \A j \in 1..Len(h) : h[j] <= v
FinalValAcc(h) == h[Len(h)]

\* if valid_acc > best_valid_acc
ImprovesOrTies(v, best) == v >= best
Improves(v, best) == v > best

\* best_valid_acc = 0.0; best_hp_set = None; best_hp_ind = None
StaleBest(old) == old
InitialBest(old) == <<0, None, None>>

\* validation_data=(X_valid, y_valid)
ValidationDataTest(valid) == X_test
ValidationData(valid) == valid

\* the set the retrain cell applies: best_hp_set
RetrainSetLast(best, last) == last
RetrainSet(best, last) == best

TouchesTest(data) == IF data \cap X_test # {} THEN 1 ELSE 0

Built(origin, ind, sw, cfg) ==
    [origin |-> origin, ind |-> ind,
     hp |-> [k \in BuildKeys(sw) |-> cfg[k]],
     batch_size |-> None, epochs |-> None,
     fit_on |-> {}, validated_on |-> {}]

Fitted(m, cfg, data, val) ==
    [m EXCEPT !.batch_size = cfg["batch_size"],
              !.epochs = cfg["num_epochs"],
              !.fit_on = data,
              !.validated_on = val]

\* train_test_split(X_train_valid, y_train_valid, test_size=0.10): a random
\* split; the validation part has ceil(0.10 * n) samples
ValidSize == (NumTrainValid + 9) \div 10

PrepareData ==
    /\ pc = "PREPARE"
    /\ \E v \in SUBSET X_train_valid :
          /\ Cardinality(v) = ValidSize
          /\ X_valid' = v
    /\ pc' = "PREVIEW"
    /\ UNCHANGED cbvars
    /\ UNCHANGED <<run, sweep, main_best, n_iter, strict_lib, heap, rng, enum_count, i,
                   hp_ind, hp_set, config, model, history, valid_acc,
                   best_valid_acc, best_hp_set, best_hp_ind, out, trials,
                   sampled, prev_sampled, test_uses, fail>>

\* for i, hp_set in enumerate(hp_sets): print ...
Preview ==
    /\ pc = "PREVIEW"
    /\ LET s0 == check_random_state(Seed(sweep), rng)
           ys == IterAll(sweep, s0, n_iter)
       IN /\ heap' = heap \o ys
          /\ rng' = Advance(s0, n_iter * Len(SortedKeys(sweep)))
          /\ sampled' = [sampled EXCEPT ![PreviewKey(sweep)] = ys]
          /\ IF n_iter > 0
             THEN /\ i' = n_iter - 1
                  /\ hp_set' = Len(heap) + n_iter
             ELSE UNCHANGED <<i, hp_set>>
    /\ pc' = "NOT_STARTED"
    /\ UNCHANGED cbvars
    /\ UNCHANGED <<run, sweep, main_best, n_iter, strict_lib, X_valid, enum_count,
                   hp_ind, config, model, history, valid_acc,
                   best_valid_acc, best_hp_set, best_hp_ind, out, trials,
                   prev_sampled, test_uses, fail>>

\* best_valid_acc = 0.0 ... and the for statement's iter(enumerate(hp_sets))
SweepInit ==
    /\ pc = "NOT_STARTED"
    /\ LET b == InitialBest(<<best_valid_acc, best_hp_set, best_hp_ind>>)
       IN /\ best_valid_acc' = b[1]
          /\ best_hp_set' = b[2]
          /\ best_hp_ind' = b[3]
    /\ rng' = check_random_state(Seed(sweep), rng)
    /\ enum_count' = 0
    /\ trials' = <<>>
    /\ pc' = IF Exhausted(0, n_iter) THEN "RETRAIN" ELSE "BUILD"
    /\ UNCHANGED cbvars
    /\ UNCHANGED <<run, sweep, main_best, n_iter, strict_lib, X_valid, heap, i, hp_ind,
                   hp_set, config, model, history, valid_acc, out, sampled,
                   prev_sampled, test_uses, fail>>

\* loop head and lines 262-275: next(iterator), header, the two config
\* updates, build_compile
Build ==
    /\ pc = "BUILD"
    /\ LET d == DrawSet(sweep, rng)
           h2 == Yield(heap, d)
           ref == Len(h2)
           cfg == ConfigUpdate(ConfigUpdate(config, static_hyper_params), d)
       IN /\ heap' = h2
          /\ rng' = AfterDraw(sweep, rng)
          /\ sampled' = [sampled EXCEPT ![LoopKey(sweep)] = Append(@, d)]
          /\ hp_set' = ref
          /\ hp_ind' = enum_count
          /\ enum_count' = enum_count + 1
          /\ out' = [out EXCEPT !.header = Append(@, i)]
          /\ config' = cfg
          /\ \/ /\ BuildKeys(sweep) \subseteq DOMAIN cfg
                /\ model' = Built("trial", enum_count, sweep, cfg)
                /\ trials' = Append(trials,
                       [ind |-> enum_count, set |-> ref, built |-> 1,
                        trained |-> 0, recorded |-> 0, acc |-> None])
                /\ pc' = "TRAIN"
                /\ fail' = fail
             \/ /\ model' = model
                /\ trials' = Append(trials,
                       [ind |-> enum_count, set |-> ref, built |-> 0,
                        trained |-> 0, recorded |-> 0, acc |-> None])
                /\ pc' = OnException("TRAIN")
                /\ fail' = "build"
    /\ UNCHANGED cbvars
    /\ UNCHANGED <<run, sweep, main_best, n_iter, strict_lib, X_valid, i, history,
                   valid_acc, best_valid_acc, best_hp_set, best_hp_ind,
                   prev_sampled, test_uses>>

\* history = model.fit(X_train, y_train, ..., validation_data=(X_valid, ..))
Train ==
    /\ pc = "TRAIN"
    /\ LET val == ValidationData(X_valid)
           k == Len(trials)
       IN \/ /\ \E h \in [1..config["num_epochs"] -> 0..MaxAcc] :
                    history' = h
             /\ model' = Fitted(model, config, X_train, val)
             /\ trials' = [trials EXCEPT ![k].trained = @ + 1]
             /\ test_uses' = test_uses + TouchesTest(X_train \cup val)
             /\ pc' = "RECORD"
             /\ fail' = fail
          \/ /\ pc' = OnException("RECORD")
             /\ fail' = "train"
             /\ UNCHANGED <<history, model, trials, test_uses>>
    /\ UNCHANGED cbvars
    /\ UNCHANGED <<run, sweep, main_best, n_iter, strict_lib, X_valid, heap, rng,
                   enum_count, i, hp_ind, hp_set, config, valid_acc,
                   best_valid_acc, best_hp_set, best_hp_ind, out, sampled,
                   prev_sampled>>

\* lines 288-292, then the loop's test for a next item
Record ==
    /\ pc = "RECORD"
    /\ LET v == FinalValAcc(history)
           k == Len(trials)
       IN /\ valid_acc' = v
          /\ trials' = [trials EXCEPT ![k].recorded = @ + 1, ![k].acc = v]
          /\ IF Improves(v, best_valid_acc)
             THEN /\ best_valid_acc' = v
                  /\ best_hp_set' = hp_set
                  /\ best_hp_ind' = hp_ind
             ELSE UNCHANGED <<best_valid_acc, best_hp_set, best_hp_ind>>
    /\ pc' = IF Exhausted(enum_count, n_iter) THEN "RETRAIN" ELSE "BUILD"
    /\ UNCHANGED cbvars
    /\ UNCHANGED <<run, sweep, main_best, n_iter, strict_lib, X_valid, heap, rng,
                   enum_count, i, hp_ind, hp_set, config, model, history,
                   out, sampled, prev_sampled, test_uses, fail>>

\* the retrain cell (lines 310-322 and 502-514): print the best, apply it
\* to the config without allow_val_change, build, fit on train+valid
Retrain ==
    /\ pc = "RETRAIN"
    /\ LET applied == RetrainSet(best_hp_set, hp_set)
           printed == [out EXCEPT !.best_ind = best_hp_ind,
                                  !.best_acc = best_valid_acc]
       IN \/ \* print_dict(None) raises
             /\ best_hp_set = None
             /\ out' = printed
             /\ pc' = "ABORTED"
             /\ fail' = "print_dict"
             /\ UNCHANGED <<config, model, history, test_uses>>
          \/ \* wandb.config.update(best_hp_set) raises
             /\ best_hp_set # None
             /\ UpdateRaises(config, heap[applied], FALSE, strict_lib)
             /\ out' = [printed EXCEPT !.best_set = best_hp_set]
             /\ pc' = "ABORTED"
             /\ fail' = "config_update"
             /\ UNCHANGED <<config, model, history, test_uses>>
          \/ /\ best_hp_set # None
             /\ ~UpdateRaises(config, heap[applied], FALSE, strict_lib)
             /\ out' = [printed EXCEPT !.best_set = best_hp_set]
             /\ LET cfg == ConfigUpdate(config, heap[applied])
                    m == Built("retrain", best_hp_ind, sweep, cfg)
                IN /\ config' = cfg
                   /\ \/ \* build and fit succeed
                         /\ model' = Fitted(m, cfg, X_train_valid, {})
                         /\ history' = <<>>
                         /\ test_uses' = test_uses + TouchesTest(X_train_valid)
                         /\ pc' = "EVALUATE"
                         /\ fail' = fail
                      \/ \* build_compile raises
                         /\ pc' = "ABORTED"
                         /\ fail' = "retrain_build"
                         /\ UNCHANGED <<model, history, test_uses>>
                      \/ \* model.fit raises
                         /\ model' = m
                         /\ pc' = "ABORTED"
                         /\ fail' = "retrain_fit"
                         /\ UNCHANGED <<history, test_uses>>
    /\ UNCHANGED cbvars
    /\ UNCHANGED <<run, sweep, main_best, n_iter, strict_lib, X_valid, heap, rng,
                   enum_count, i, hp_ind, hp_set, valid_acc, best_valid_acc,
                   best_hp_set, best_hp_ind, trials, sampled, prev_sampled>>

\* loss, acc = model.evaluate(X_test, y_test, ...); print
Evaluate ==
    /\ pc = "EVALUATE"
    /\ \E l \in 0..1, a \in 0..MaxAcc :
          out' = [out EXCEPT !.test_loss = l, !.test_acc = a,
                             !.evaluated = model]
    /\ test_uses' = test_uses + TouchesTest(X_test)
    /\ pc' = "DONE"
    /\ UNCHANGED cbvars
    /\ UNCHANGED <<run, sweep, main_best, n_iter, strict_lib, X_valid, heap, rng,
                   enum_count, i, hp_ind, hp_set, config, model, history,
                   valid_acc, best_valid_acc, best_hp_set, best_hp_ind,
                   trials, sampled, prev_sampled, fail>>

\* the main sweep is done; the cells of exercise 1 follow (lines 381-392).
\* The history variables of the sweep start afresh.
NextSweep ==
    /\ pc = "DONE"
    /\ sweep = "main"
    /\ sweep' = "ex1"
    /\ pc' = "PREVIEW"
    /\ out' = NoOut
    /\ test_uses' = 0
    /\ trials' = <<>>
    /\ main_best' = <<best_valid_acc, best_hp_ind>>
    /\ UNCHANGED cbvars
    /\ UNCHANGED <<run, n_iter, strict_lib, X_valid, heap, rng, enum_count,
                   i, hp_ind, hp_set, config, model, history, valid_acc,
                   best_valid_acc, best_hp_set, best_hp_ind, sampled,
                   prev_sampled, fail>>

\* after a complete run the notebook is run again from the top in a fresh
\* kernel
Rerun ==
    /\ run < MaxRuns
    /\ pc = "DONE"
    /\ sweep = "ex1"
    /\ run' = run + 1
    /\ prev_sampled' = sampled
    /\ pc' = "PREPARE"
    /\ sweep' = "main"
    /\ X_valid' = {}
    /\ heap' = <<>>
    /\ rng' = None
    /\ enum_count' = 0
    /\ i' = None
    /\ hp_ind' = None
    /\ hp_set' = None
    /\ config' = EmptyConfig
    /\ model' = NoModel
    /\ history' = <<>>
    /\ valid_acc' = None
    /\ best_valid_acc' = None
    /\ best_hp_set' = None
    /\ best_hp_ind' = None
    /\ out' = NoOut
    /\ trials' = <<>>
    /\ sampled' = NoSampled
    /\ test_uses' = 0
    /\ main_best' = <<None, None>>
    /\ fail' = "none"
    /\ UNCHANGED cbvars
    /\ UNCHANGED <<n_iter, strict_lib>>

Next ==
    \/ PrepareData
    \/ Preview
    \/ SweepInit
    \/ Build
    \/ Train
    \/ Record
    \/ Retrain
    \/ Evaluate
    \/ NextSweep
    \/ Rerun

Spec == Init /\ [][Next]_vars

\* the kernel runs the cells to the end: a step that can run does run
FairSpec == Spec /\ WF_vars(Next)

\* ==================================================== callbacks example
\* model.fit(..., epochs=5, ...)
epochs == 5
initial_epoch == 0

\* EarlyStopping(monitor='val_acc', patience=10); min_delta keeps its default
patience_short == epochs \div 2
patience == 10
min_delta == 0

\* ModelCheckpoint(outpath + '...', monitor='val_acc'): save_best_only and
\* period keep their defaults
save_best_only == FALSE
period == 1

\* the monitored quantity is an accuracy, so both callbacks compare with
\* np.greater
monitor_op(a, b) == a > b

\* '{val_acc:.2f}': accuracy levels are two to a hundredth, the name keeps
\* the nearest hundredth
Fmt2f(v) == (v + 1) \div 2

\* outpath + 'weights_epoch_{epoch:02d}_val_acc_{val_acc:.2f}.hdf5'
\*     .format(epoch=epoch + 1, **logs)
WeightsFile(e, v) == [kind |-> "weights", epoch |-> e + 1,
                      val_acc |-> Fmt2f(v)]

\* the event file TensorBoard(outpath, histogram_freq=1) writes into
EventsFile == [kind |-> "events", epoch |-> 0, val_acc |-> 0]

\* EarlyStopping.on_epoch_end: <<best, wait, stopped_epoch, stop_training>>
EarlyStoppingOnEpochEnd(e, current, best, wait, stopped, stop) ==
    IF monitor_op(current - min_delta, best)
    THEN <<current, 0, stopped, stop>>
    ELSE IF wait + 1 >= patience
         THEN <<best, wait + 1, e, TRUE>>
         ELSE <<best, wait + 1, stopped, stop>>

\* does ModelCheckpoint.on_epoch_end write the model this time
CheckpointWrites(since, current, best) ==
    /\ since + 1 >= period
    /\ save_best_only => monitor_op(current, best)

\* fit up to the epoch loop: callbacks.set_model and on_train_begin
FitBegin ==
    /\ cb_pc = "COMPILED"
    /\ stop_training' = FALSE
    /\ es_wait' = 0
    /\ es_stopped_epoch' = 0
    /\ es_best' = NegInf
    /\ outpath_dir' = outpath_dir \cup {EventsFile}
    /\ cb_pc' = IF initial_epoch < epochs THEN "EPOCH" ELSE "TRAIN_END"
    /\ UNCHANGED <<epoch, epoch_logs, epochs_since_last_save, ck_best,
                   val_acc_hist, ck_saved>>
    /\ UNCHANGED sweepvars

\* one pass of the epoch loop: train and validate, then on_epoch_end of
\* early_stopper, tensorboard and checkpointer in that order, then the
\* loop's test of stop_training
FitEpoch ==
    /\ cb_pc = "EPOCH"
    /\ \E v \in 0..MaxAcc :
         LET e == IF epoch = None THEN initial_epoch ELSE epoch + 1
             es == EarlyStoppingOnEpochEnd(e, v, es_best, es_wait,
                                           es_stopped_epoch, stop_training)
             writes == CheckpointWrites(epochs_since_last_save, v, ck_best)
         IN  /\ epoch' = e
             /\ epoch_logs' = v
             /\ val_acc_hist' = Append(val_acc_hist, v)
             /\ es_best' = es[1]
             /\ es_wait' = es[2]
             /\ es_stopped_epoch' = es[3]
             /\ stop_training' = es[4]
             /\ epochs_since_last_save' =
                    IF epochs_since_last_save + 1 >= period
                    THEN 0 ELSE epochs_since_last_save + 1
             /\ ck_best' = IF writes /\ save_best_only THEN v ELSE ck_best
             /\ ck_saved' = IF writes
                            THEN Append(ck_saved, WeightsFile(e, v))
                            ELSE ck_saved
             /\ outpath_dir' = IF writes
                               THEN outpath_dir \cup {WeightsFile(e, v)}
                               ELSE outpath_dir
             /\ cb_pc' = IF es[4] \/ e + 1 >= epochs
                         THEN "TRAIN_END" ELSE "EPOCH"
    /\ UNCHANGED sweepvars

\* after the loop: on_train_end, fit returns
FitEnd ==
    /\ cb_pc = "TRAIN_END"
    /\ cb_pc' = "FITTED"
    /\ UNCHANGED <<epoch, epoch_logs, stop_training, es_wait, es_best,
                   es_stopped_epoch, epochs_since_last_save, ck_best,
                   outpath_dir, val_acc_hist, ck_saved>>
    /\ UNCHANGED sweepvars

CallbacksInit ==
    /\ run = 1
    /\ n_iter = 0
    /\ strict_lib = FALSE
    /\ prev_sampled = NoSampled
    /\ Fresh
    /\ CbFresh

CallbacksNext ==
    \/ FitBegin
    \/ FitEpoch
    \/ FitEnd

CallbacksSpec == CallbacksInit /\ [][CallbacksNext]_vars

\* ================================================================ claims

Best == <<best_valid_acc, best_hp_set, best_hp_ind>>

\* the sweep loop has run to its end and the retrain cell is next
LoopDone == pc = "RETRAIN"

\* trial k (1-based position in trials) holds the maximum recorded accuracy
IsMax(k) == \A j \in 1..Len(trials) : trials[j].acc <= trials[k].acc

\* C1: after the loop has run all N >= 1 trials, the best-so-far state is
\* the accuracy, set and index of a trial whose recorded accuracy is the
\* maximum of the N recorded accuracies, also when every accuracy is 0.0.
C1_BestIsMaxTrial ==
    (LoopDone /\ n_iter >= 1) =>
        \E k \in 1..Len(trials) :
            /\ IsMax(k)
            /\ best_valid_acc = trials[k].acc
            /\ best_hp_ind = trials[k].ind
            /\ best_hp_set = trials[k].set

\* C2: when several trials record the same maximum accuracy, the trial
\* selected after the sweep is the one of them with the smallest index.
C2_TieEarliest ==
    (/\ LoopDone
     /\ \E j, k \in 1..Len(trials) : j # k /\ IsMax(j) /\ IsMax(k)) =>
        \E k \in 1..Len(trials) :
            /\ IsMax(k)
            /\ \A j \in 1..Len(trials) : IsMax(j) => k <= j
            /\ best_hp_ind = trials[k].ind
            /\ best_hp_set = trials[k].set

InSweep == {"BUILD", "TRAIN", "RECORD", "RETRAIN", "EVALUATE", "DONE"}

\* C3: within one sweep best_valid_acc never decreases from one step to the
\* next, and the best-so-far state changes in a step exactly when the step
\* is a trial's record step whose validation accuracy is strictly greater
\* than the current best_valid_acc.
C3_OnlyImproves ==
    [][(pc \in InSweep /\ run' = run) =>
          /\ best_valid_acc' >= best_valid_acc
          /\ (Best' # Best) <=>
                (pc = "RECORD" /\ history[Len(history)] > best_valid_acc)]_vars

\* an improving record and, after it, a record that left the best alone
C3_Witness ==
    /\ pc = "RETRAIN"
    /\ Len(trials) >= 2
    /\ best_hp_ind = 0
    /\ best_valid_acc > 0
    /\ trials[2].recorded = 1

\* C4: a sweep in which no step fails runs exactly N trials: the k-th trial
\* is run on the k-th set the sampler produces, each is built, trained and
\* recorded once, never more, and after the loop there are N of them.
C4_ExactlyNTrials ==
    /\ Len(trials) <= n_iter
    /\ \A k \in 1..Len(trials) :
          /\ trials[k].ind = k - 1
          /\ trials[k].built <= 1
          /\ trials[k].trained <= trials[k].built
          /\ trials[k].recorded <= trials[k].trained
          /\ heap[trials[k].set] = IterAll(sweep, Seed(sweep), n_iter)[k]
          /\ k < Len(trials) => trials[k].recorded = 1
    /\ LoopDone =>
          /\ Len(trials) = n_iter
          /\ \A k \in 1..Len(trials) : trials[k].recorded = 1

C4_Witness == LoopDone /\ n_iter = MaxTrials /\ Len(trials) = MaxTrials

\* the retrain cell has built (and fitted) its model in this sweep
Retrained == pc \in {"EVALUATE", "DONE"}

\* C5: after the retrain, every sampled hyperparameter the build and the
\* fit read from the config equals the value the best trial's set had when
\* it was sampled, wherever the best trial is in the sweep, and the set the
\* best reference points to is still what was sampled.
C5_RetrainUsesBest ==
    Retrained =>
        LET asSampled == sampled[LoopKey(sweep)][best_hp_ind + 1]
        IN /\ heap[best_hp_set] = asSampled
           /\ model.origin = "retrain"
           /\ \A k \in (DOMAIN asSampled) \cap (DOMAIN model.hp) :
                 model.hp[k] = asSampled[k]
           /\ model.batch_size = asSampled["batch_size"]

\* retrained in the main sweep on a best set that differs from the set of
\* the last trial run
C5_Witness ==
    /\ Retrained
    /\ sweep = "main"
    /\ best_hp_set # hp_set
    /\ heap[best_hp_set] # heap[hp_set]
    /\ \E k \in BuildKeys("main") \cap DOMAIN hp_ranges :
          heap[best_hp_set][k] # heap[hp_set][k]

Agree(a, b) ==
    \A k \in 1..Len(a) : k <= Len(b) => a[k] = b[k]

\* C6: with the integer seed every iteration over a sampler yields the same
\* sequence: the set trained as trial k is the set the preview printed at
\* index k, and a second run of the notebook samples what the first did.
C6_Reproducible ==
    /\ Agree(sampled.main_loop, sampled.main_preview)
    /\ Agree(sampled.ex1_loop, sampled.ex1_preview)
    /\ Agree(sampled.main_preview, prev_sampled.main_preview)
    /\ Agree(sampled.main_loop, prev_sampled.main_loop)
    /\ Agree(sampled.ex1_preview, prev_sampled.ex1_preview)
    /\ Agree(sampled.ex1_loop, prev_sampled.ex1_loop)

C6_Witness ==
    /\ run = 2
    /\ Len(sampled.main_loop) >= 2
    /\ Len(prev_sampled.main_loop) >= 2
    /\ Len(sampled.ex1_loop) >= 1
    /\ Len(prev_sampled.ex1_loop) >= 1

\* a trial has just been recorded
JustRecorded == pc \in {"BUILD", "RETRAIN"} /\ Len(trials) >= 1

\* C7: the value recorded for a trial and compared against the best is the
\* validation accuracy of its last epoch: if the trial became the best, the
\* best accuracy is that final value, and if it did not, the final value
\* did not exceed the best, whatever the earlier epochs' values were.
C7_FinalEpoch ==
    JustRecorded =>
        LET final == history[Len(history)]
        IN /\ valid_acc = final
           /\ trials[Len(trials)].acc = final
           /\ best_hp_ind = hp_ind => best_valid_acc = final
           /\ best_hp_ind # hp_ind => best_valid_acc >= final

\* a trial that peaked above the best in its first epoch, ended at or below
\* it, and was not selected
C7_Witness ==
    /\ JustRecorded
    /\ Len(history) = 2
    /\ history[1] > history[2]
    /\ history[1] > best_valid_acc
    /\ best_hp_ind # hp_ind
    /\ best_hp_ind # None

\* C8: no fit is given test samples, for training or for validation; until
\* the evaluate step the test set has not been used; in DONE it has been
\* used once, by the evaluation of the model the retrain fitted on the
\* train+valid data.
C8_TestOnce ==
    /\ model.fit_on \cap X_test = {}
    /\ model.validated_on \cap X_test = {}
    /\ pc \in (InSweep \ {"DONE"}) => test_uses = 0
    /\ pc = "DONE" =>
          /\ test_uses = 1
          /\ out.evaluated = model
          /\ out.evaluated.origin = "retrain"
          /\ out.evaluated.fit_on = X_train_valid

C8_Witness ==
    /\ pc = "DONE"
    /\ Len(trials) = MaxTrials
    /\ \A k \in 1..Len(trials) : trials[k].trained = 1

BuildOrTrainFailures == {"build", "train", "retrain_build", "retrain_fit"}

\* C9: a sweep with N >= 1 trials stops short of DONE only because a build
\* or training step failed, and in DONE the best set, its index, the test
\* loss and the test accuracy have been printed.
C9_ReachesDone ==
    /\ (pc = "ABORTED" /\ n_iter >= 1) => fail \in BuildOrTrainFailures
    /\ (pc = "DONE" /\ n_iter >= 1) =>
          /\ out.best_set # None
          /\ out.best_ind # None
          /\ out.test_loss # None
          /\ out.test_acc # None

\* C10: once the build or the training of trial k has failed the run is
\* aborted: k is the last trial started, it is never recorded, and nothing
\* is evaluated.
C10_FailureAborts ==
    fail \in {"build", "train"} =>
        /\ pc = "ABORTED"
        /\ enum_count = hp_ind + 1
        /\ Len(trials) = hp_ind + 1
        /\ trials[Len(trials)].ind = hp_ind
        /\ trials[Len(trials)].recorded = 0
        /\ out.test_acc = None

\* the first of several trials failed in training
C10_Witness ==
    /\ fail = "train"
    /\ hp_ind = 0
    /\ n_iter >= 2

\* the state of the spec's machine NOT_STARTED -> (BUILD -> TRAIN -> RECORD)*
\* -> DONE that a control point belongs to: DONE is the state in which the
\* best configuration and the test metric have been reported, so the retrain
\* and evaluate cells are the way from the last RECORD to DONE; a run that
\* raised stays in the state it raised in
Phase ==
    CASE pc \in {"PREPARE", "PREVIEW", "NOT_STARTED"} -> "NOT_STARTED"
      [] pc \in {"BUILD", "TRAIN", "RECORD", "DONE"} -> pc
      [] pc \in {"RETRAIN", "EVALUATE"} -> "RECORD"
      [] pc = "ABORTED" ->
            IF fail = "build" THEN "BUILD"
            ELSE IF fail = "train" THEN "TRAIN" ELSE "RECORD"

MachineTransitions ==
    {<<"NOT_STARTED", "BUILD">>, <<"BUILD", "TRAIN">>, <<"TRAIN", "RECORD">>,
     <<"RECORD", "BUILD">>, <<"RECORD", "DONE">>}

\* C12: in a sweep with at least one trial the machine only moves from
\* NOT_STARTED to BUILD, BUILD to TRAIN, TRAIN to RECORD, RECORD to the
\* next BUILD and from the last RECORD to DONE; at every moment all trials
\* but the newest have been recorded, and a BUILD is entered only when
\* every trial started so far has been recorded.
C12_Sequential ==
    [][(n_iter >= 1 /\ run' = run /\ sweep' = sweep) =>
          /\ Phase' # Phase => <<Phase, Phase'>> \in MachineTransitions
          /\ \A k \in 1..(Len(trials') - 1) : trials'[k].recorded = 1
          /\ pc' = "BUILD" =>
                \A k \in 1..Len(trials') : trials'[k].recorded = 1
          /\ pc' = "DONE" =>
                /\ Len(trials') = n_iter
                /\ \A k \in 1..Len(trials') : trials'[k].recorded = 1]_vars

\* the second trial is about to be built, after the first was recorded
C12_Witness ==
    /\ pc = "BUILD"
    /\ Len(trials) = 1
    /\ trials[1].built = 1
    /\ trials[1].trained = 1
    /\ trials[1].recorded = 1

\* the best-so-far state, with the dict best_hp_set points to
BestValue ==
    <<best_valid_acc, best_hp_set, best_hp_ind,
      IF best_hp_set = None THEN {} ELSE {heap[best_hp_set]}>>

\* the best-so-far state a fold over the first k recorded trials gives
RECURSIVE BestAfter(_, _)
BestAfter(ts, k) ==
    IF k = 0 THEN <<0, None, None>>
    ELSE LET b == BestAfter(ts, k - 1)
         IN IF ts[k].acc > b[1]
            THEN <<ts[k].acc, ts[k].set, ts[k].ind>>
            ELSE b

\* C13: a build or train step, failing or not, leaves best_valid_acc,
\* best_hp_set (and the dict it refers to) and best_hp_ind unchanged, and
\* after a failure in trial k they are what the trials before k left.
C13_OnlyRecordWrites ==
    [][run' = run =>
          /\ (pc \in {"BUILD", "TRAIN"} \/ fail' # "none") =>
                BestValue' = BestValue
          /\ fail' \in {"build", "train"} =>
                Best' = BestAfter(trials', Len(trials') - 1)]_vars

\* trial 1 failed in training after trial 0 had become the best
C13_Witness ==
    /\ fail = "train"
    /\ hp_ind = 1
    /\ best_hp_ind = 0
    /\ best_valid_acc > 0

\* C14: the retrain step runs with all N trials recorded and the best
\* state the last trial left, prints and applies that state; the evaluate
\* step is entered only from a finished retrain and evaluates its model;
\* neither step changes the best-so-far state.
C14_RetrainThenEvaluate ==
    [][run' = run =>
          /\ pc = "RETRAIN" =>
                /\ Len(trials) = n_iter
                /\ \A k \in 1..Len(trials) : trials[k].recorded = 1
                /\ Best = BestAfter(trials, n_iter)
                /\ out'.best_ind = best_hp_ind
                /\ out'.best_acc = best_valid_acc
                /\ BestValue' = BestValue
                /\ pc' = "EVALUATE" =>
                      /\ model'.origin = "retrain"
                      /\ model'.ind = best_hp_ind
                      /\ model'.fit_on = X_train_valid
          /\ pc' = "EVALUATE" => pc = "RETRAIN"
          /\ pc = "EVALUATE" =>
                /\ model.origin = "retrain"
                /\ out'.evaluated = model
                /\ BestValue' = BestValue]_vars

C14_Witness ==
    /\ pc = "DONE"
    /\ n_iter = MaxTrials
    /\ best_hp_ind = 1
    /\ out.evaluated.ind = 1

\* the set the sampler yielded for the trial in progress
OwnSet == sampled[LoopKey(sweep)][hp_ind + 1]

\* C15: every value the build and the fit of trial k read from the config
\* is the value of trial k's own set if the set has the key, and the static
\* value otherwise; nothing an earlier trial wrote is read.
C15_NoLeakBetweenTrials ==
    pc \in {"TRAIN", "RECORD"} =>
        /\ model.origin = "trial"
        /\ model.ind = hp_ind
        /\ \A k \in DOMAIN model.hp :
              model.hp[k] = IF k \in DOMAIN OwnSet
                            THEN OwnSet[k]
                            ELSE static_hyper_params[k]
        /\ pc = "RECORD" =>
              /\ model.batch_size = OwnSet["batch_size"]
              /\ model.epochs = static_hyper_params["num_epochs"]

\* a later trial of the main sweep whose set differs from its predecessor's
\* in a key the build reads
C15_Witness ==
    /\ pc = "RECORD"
    /\ sweep = "main"
    /\ hp_ind >= 1
    /\ \E k \in BuildKeys("main") \cap DOMAIN hp_ranges :
          sampled.main_loop[hp_ind + 1][k] # sampled.main_loop[hp_ind][k]

InRange(r, v) ==
    CASE r.kind = "list" -> \E j \in 1..Len(r.vals) : r.vals[j] = v
      [] r.kind = "uniform" -> 0 <= v /\ v <= DropRes
      [] r.kind = "randint" -> r.low <= v /\ v < r.high

WellFormed(d, ranges) ==
    /\ DOMAIN d = DOMAIN ranges
    /\ \A k \in DOMAIN ranges : InRange(ranges[k], d[k])

\* C16: every set a sampler yields has exactly the keys of its range
\* specification, a listed value for each list, a dropout in [0, 1], and in
\* exercise 1 num_conv_layers in 2..7, num_convs_per_max_pool in 1..2 and
\* num_dense_layers in 1..2.
C16_SetsInRange ==
    /\ \A q \in {"main_preview", "main_loop"} :
          \A k \in 1..Len(sampled[q]) : WellFormed(sampled[q][k], hp_ranges)
    /\ \A q \in {"ex1_preview", "ex1_loop"} :
          \A k \in 1..Len(sampled[q]) :
             /\ WellFormed(sampled[q][k], hp_ranges_ex1)
             /\ sampled[q][k]["num_conv_layers"] \in 2..7
             /\ sampled[q][k]["num_convs_per_max_pool"] \in 1..2
             /\ sampled[q][k]["num_dense_layers"] \in 1..2
    /\ \A r \in 1..Len(heap) :
          WellFormed(heap[r], hp_ranges) \/ WellFormed(heap[r], hp_ranges_ex1)

C16_Witness ==
    /\ Len(sampled.main_loop) = MaxTrials
    /\ Len(sampled.ex1_loop) = MaxTrials

\* the best-so-far state is that of a recorded trial of the current sweep
BestIsOwnTrial ==
    \E k \in 1..Len(trials) :
        /\ trials[k].recorded = 1
        /\ best_hp_ind = trials[k].ind
        /\ best_hp_set = trials[k].set
        /\ heap[best_hp_set] = sampled[LoopKey(sweep)][k]
        /\ best_valid_acc = trials[k].acc

BestIsInitial == Best = <<0, None, None>>

\* C17: the best set, index and accuracy the exercise 1 sweep ends with
\* belong to one of its own trials.
C17_SecondSweepOwnBest ==
    (sweep = "ex1" /\ LoopDone /\ n_iter >= 1) => BestIsOwnTrial

\* the part of C17 about the fresh start: in the exercise 1 sweep the best
\* state is the initial one or that of an exercise 1 trial, also when the
\* main sweep ended with a higher best accuracy than exercise 1 reaches
FreshStartEx1 ==
    (sweep = "ex1" /\ pc \in InSweep) => (BestIsInitial \/ BestIsOwnTrial)

FreshStartEx1_Witness ==
    /\ sweep = "ex1"
    /\ LoopDone
    /\ BestIsOwnTrial
    /\ main_best[1] > best_valid_acc

\* C18: between trials the three best-so-far variables are the initial
\* (0.0, None, None) or the index, the set and the recorded accuracy of one
\* completed trial of this sweep.
C18_BestConsistent ==
    pc \in InSweep => (BestIsInitial \/ BestIsOwnTrial)

\* between the first and the second trial of exercise 1, the first is best
C18_Witness ==
    /\ pc = "BUILD"
    /\ sweep = "ex1"
    /\ Len(trials) = 1
    /\ best_hp_ind = 0
    /\ best_valid_acc > 0

NoPositive == \A k \in 1..Len(trials) : trials[k].acc <= 0

\* C19: after the loop best_hp_set is None exactly when no trial recorded
\* an accuracy above 0.0, and so is best_hp_ind; the retrain cell is then
\* reached with None, and stops at it.
C19_NoneIffNoPositive ==
    /\ LoopDone =>
          /\ Len(trials) = n_iter
          /\ (best_hp_set = None) <=> NoPositive
          /\ (best_hp_ind = None) <=> NoPositive
    /\ fail = "print_dict" =>
          /\ pc = "ABORTED"
          /\ best_hp_set = None
          /\ NoPositive

\* several trials, all of accuracy 0.0, and the retrain cell is next
C19_Witness ==
    /\ LoopDone
    /\ n_iter >= 2
    /\ NoPositive
    /\ best_hp_set = None

\* C20: the header printed at the start of trial k names index k.
C20_HeaderNamesTrial ==
    \A k \in 1..Len(out.header) :
        k <= Len(trials) => out.header[k] = trials[k].ind

\* C21: in the callbacks example the early stopper (patience 10 on val_acc)
\* never stops the 5-epoch fit: whatever the per-epoch validation
\* accuracies, stop_training stays false, the run ends only after all 5
\* epochs, and the checkpointer has written exactly one file at the end of
\* each epoch that ran, named after that epoch and its val_acc.
FitOver == cb_pc \in {"TRAIN_END", "FITTED"}

Checkpoints == {f \in outpath_dir : f.kind = "weights"}

C21_AllEpochsCheckpointed ==
    /\ ~stop_training
    /\ FitOver => /\ Len(val_acc_hist) = epochs
                  /\ epoch = epochs - 1
    /\ Len(ck_saved) = Len(val_acc_hist)
    /\ \A k \in 1..Len(ck_saved) :
           ck_saved[k] = WeightsFile(initial_epoch + k - 1, val_acc_hist[k])
    /\ Cardinality(Checkpoints) = Len(val_acc_hist)

\* the fit has returned after a run in which val_acc never improved on the
\* first epoch, the run closest to an early stop
C21_Witness ==
    /\ cb_pc = "FITTED"
    /\ Len(val_acc_hist) = epochs
    /\ es_wait = epochs - 1
    /\ Cardinality(Checkpoints) = epochs
    /\ \E j, k \in 1..epochs : j # k /\ val_acc_hist[j] = val_acc_hist[k]

====
